---- MODULE Spec2Model ----
(***************************************************************************)
(* girlpound-bot, src/discord.rs: the seeder cooldown of PoiseData          *)
(* (can_seed / reset_seed_cooldown) and its concurrent callers, the         *)
(* cooldown actor spawned by spawn_cooldown_manager, the Message and        *)
(* MessageDelete branches of event_handler, PoiseData::server, the log      *)
(* buffer start_bot hands to the log thread, and the moderation commands    *)
(* of src/discord/commands/mods.rs.                                         *)
(*                                                                          *)
(* Time is chrono::Utc::now() read as an integer number of milliseconds     *)
(* since the process started; every read of the clock in the code is a      *)
(* read of the variable now.                                                *)
(***************************************************************************)
EXTENDS Integers, Sequences, FiniteSets, TLC

(***************************************************************************)
(* Bounds of the model.                                                     *)
(***************************************************************************)
\* events delivered over a run of the actor specification
MaxEvents == 2
\* last clock value of the actor specification
MaxNow == 2
\* largest remaining wait the media cooldown reports
MaxLeft == 1
\* log lines appended over a run of the log buffer specification
MaxLines == 4
\* drains over a run of the log buffer specification
MaxDrains == 3
\* moderation commands invoked over a run of the command specification
MaxCmds == 3
\* MessageDelete events delivered over a run of the lookup specification
MaxDeletes == 2
\* capacity of the request channel (64 in the source, line 84), scaled down
\* so that a full channel is reached
ChanCap == 1
\* clock advances over a run of the seeder specification
MaxTicks == 4
\* can_seed / reset_seed_cooldown calls over a run of the seeder specification
MaxSeedOps == 3

\* chat users that post messages
Users == {1, 2}
\* chat channels; channel 1 is the trial mod channel
Channels == {1, 2}
\* event_handler invocations that may run concurrently
Handlers == {1, 2}
\* the configured game servers
Servers == {"s1", "s2"}
\* the addresses a command may name: the configured servers and one that is not
Addrs == Servers \cup {"s3"}
\* PoiseData.servers: HashMap<SocketAddr, Server>, fixed at construction
servers == [a \in Servers |-> [addr |-> a]]
\* ids of the chat messages
MsgIds == {1, 2}
\* seeder command invocations that may run concurrently
Callers == {1, 2}
\* slash command invocations that may run concurrently
Invocations == {1, 2, 3}
\* the reasons a moderator gives
Reasons == {"spam"}

(***************************************************************************)
(* Program constants.                                                       *)
(***************************************************************************)
MINUTE == 60 * 1000
HOUR == 60 * MINUTE
\* const SEED_COOLDOWN: Duration = Duration::milliseconds(4 * 60 * 60 * 1000)
SEED_COOLDOWN == 4 * 60 * 60 * 1000
\* DateTime::<Utc>::MIN_UTC, the earliest timestamp chrono represents (year
\* -262143), brought into the checker's integer range: it lies further
\* below every clock reading than any duration the model adds to it.
MIN_UTC == -2000000000
\* data.trial_mod_channel
trial_mod_channel == 1

\* Option<DateTime<Utc>> of the history variables: None, or Some(t)
None == <<>>
Some(t) == <<t>>

VARIABLES
    now,              \* chrono::Utc::now()
    \* ---- PoiseData.seeder_cooldown ----
    seeder_cooldown,  \* HashMap<SocketAddr, DateTime<Utc>>: a function on the keys present
    triggered,        \* history: server -> Some(time of its last reset_seed_cooldown), or None
    seedLog,          \* history: the can_seed / reset_seed_cooldown calls, in order
    ticks,            \* clock advances taken by the seeder specification
    \* ---- event handlers ----
    cell,             \* PoiseData.media_cooldown_thread: "unset" | "set" | "dropped"
    spawns,           \* history: calls of spawn_cooldown_manager so far
    lock,             \* holder of the media_cooldown write lock, 0 when free
    hpc,              \* handler -> position in event_handler
    hev,              \* handler -> the event it handles
    hcd,              \* handler -> the Cooldown it sends
    hret,             \* handler -> what its last run returned: "none" | "ok" | "err"
    events,           \* events delivered so far
    \* ---- cooldown actor ----
    apc,              \* position of the actor task
    chan,             \* the mpsc channel's buffered Cooldown requests
    cur,              \* the Cooldown whose notice is being sent
    queue,            \* Vec<(Cooldown, Message)>
    nmsg,             \* nmsg sent so far; the n-th has message id n
    delLog,           \* history: delete tasks spawned, [msg, delete_at, at], in order
    tasks,            \* spawned delete tasks not yet completed
    pass,             \* history: what the actor's current/last loop pass did
    failed,           \* history: the (user, channel) pairs a notice could not be sent for
    \* ---- log ingestion buffer ----
    logBuf,           \* the lines appended and not yet drained, in arrival order
    appended,         \* lines appended so far; the n-th line is n
    dpc,              \* position of the drain loop: "wait" | "deliver"
    batch,            \* the LogBatch the running drain took
    drained,          \* history: the batches drained, [lines, started], in order
    \* ---- moderation commands ----
    rpc,              \* invocation -> position: "idle" | "wait" | "exec"
    rcmd,             \* invocation -> [server, cmd] it runs
    controller,       \* server -> invocation that holds its connection, 0 when free
    ncmd,             \* commands invoked so far
    \* ---- lookups: PoiseData::server and the MessageDelete branch ----
    lookup,           \* history: the last PoiseData::server call, [addr, ok, server]
    cache,            \* ctx.cache: the ids of the messages it holds
    mpc,              \* handler -> position in the MessageDelete branch
    mmsg,             \* handler -> id of the deleted message it handles, 0 when none
    mret,             \* handler -> what its last MessageDelete run returned
    dlast,            \* history: the last MessageDelete event delivered, [h, msg]
    devents,          \* MessageDelete events delivered so far
    logSent,          \* history: message ids posted to deleted_message_log_channel
    \* ---- callers of the seeder cooldown ----
    cpc               \* caller -> "idle", or the server its can_seed has just allowed

seedVars == <<seeder_cooldown, triggered, seedLog, ticks>>
handlerVars == <<cell, spawns, lock, hpc, hev, hcd, hret, events>>
actorVars == <<apc, chan, cur, queue, nmsg, delLog, tasks, pass, failed>>
logVars == <<logBuf, appended, dpc, batch, drained>>
rconVars == <<rpc, rcmd, controller, ncmd>>
lookupVars == <<lookup, cache, mpc, mmsg, mret, dlast, devents, logSent>>
callerVars == <<cpc>>
auxVars == <<logVars, rconVars, lookupVars, callerVars>>
coreVars == <<now, seedVars, handlerVars, actorVars>>
notLogVars == <<coreVars, rconVars, lookupVars, callerVars>>
notRconVars == <<coreVars, logVars, lookupVars, callerVars>>
notLookupVars == <<coreVars, logVars, rconVars, callerVars>>
vars == <<now, seeder_cooldown, triggered, seedLog, ticks,
          cell, spawns, lock, hpc, hev, hcd, hret, events,
          apc, chan, cur, queue, nmsg, delLog, tasks, pass, failed,
          logBuf, appended, dpc, batch, drained,
          rpc, rcmd, controller, ncmd,
          lookup, cache, mpc, mmsg, mret, dlast, devents, logSent,
          cpc>>

NoCooldown == [user |-> 0, channel |-> 0, delete_at |-> 0]
\* arm: the arm of the match on try_recv() the pass took ("Disconnected",
\* "Empty", "new": the guarded Ok arm, "dup": the Ok(_) arm); swept: the
\* number of nags its sweep removed
NoPass == [arm |-> "none", swept |-> 0]
NoEvent == [guild |-> FALSE, channel |-> 0, author |-> 0]
NoCommand == [server |-> "", cmd |-> <<>>]
NoLookup == [addr |-> "", ok |-> FALSE, server |-> None]

Init ==
    /\ now = 0
    /\ seeder_cooldown = <<>>
    /\ triggered = [s \in Servers |-> None]
    /\ seedLog = <<>>
    /\ ticks = 0
    /\ cell = "unset"
    /\ spawns = 0
    /\ lock = 0
    /\ hpc = [h \in Handlers |-> "idle"]
    /\ hev = [h \in Handlers |-> NoEvent]
    /\ hcd = [h \in Handlers |-> NoCooldown]
    /\ hret = [h \in Handlers |-> "none"]
    /\ events = 0
    /\ apc = "none"
    /\ chan = <<>>
    /\ cur = NoCooldown
    /\ queue = <<>>
    /\ nmsg = 0
    /\ delLog = <<>>
    /\ tasks = {}
    /\ pass = NoPass
    /\ failed = {}
    /\ logBuf = <<>>
    /\ appended = 0
    /\ dpc = "wait"
    /\ batch = <<>>
    /\ drained = <<>>
    /\ rpc = [i \in Invocations |-> "idle"]
    /\ rcmd = [i \in Invocations |-> NoCommand]
    /\ controller = [s \in Servers |-> 0]
    /\ ncmd = 0
    /\ lookup = NoLookup
    /\ cache = {}
    /\ mpc = [h \in Handlers |-> "idle"]
    /\ mmsg = [h \in Handlers |-> 0]
    /\ mret = [h \in Handlers |-> "none"]
    /\ dlast = [h |-> 0, msg |-> 0]
    /\ devents = 0
    /\ logSent = <<>>
    /\ cpc = [c \in Callers |-> "idle"]

(***************************************************************************)
(* PoiseData::can_seed and PoiseData::reset_seed_cooldown.                  *)
(* Each takes the write lock of seeder_cooldown for its whole body and      *)
(* has no suspension point after it, so each is one step.                   *)
(***************************************************************************)

\* map.entry(server_addr).or_insert(DateTime::<Utc>::MIN_UTC)
OrInsert(map, s) ==
    IF s \in DOMAIN map THEN map ELSE (s :> MIN_UTC) @@ map

\* let allowed_at = *last_used + SEED_COOLDOWN;
AllowedAt(last_used) == last_used + SEED_COOLDOWN

\* a can_seed that reports the time since allowed_at the wrong way round
CanSeedResult_Swapped(last_used, t) ==
    IF AllowedAt(last_used) < t
    THEN [ok |-> TRUE, wait |-> 0]
    ELSE [ok |-> FALSE, wait |-> t - last_used]

\* if allowed_at < now { Ok(()) } else { Err(allowed_at - now) }
CanSeedResult(last_used, t) ==
    IF AllowedAt(last_used) < t
    THEN [ok |-> TRUE, wait |-> 0]
    ELSE [ok |-> FALSE, wait |-> AllowedAt(last_used) - t]

\* a can_seed that records the time of a successful check
CanSeedMap_Consume(map, s, t) ==
    IF CanSeedResult(OrInsert(map, s)[s], t).ok
    THEN [OrInsert(map, s) EXCEPT ![s] = t]
    ELSE OrInsert(map, s)

\* a can_seed whose lazy insert is or_insert(Utc::now())
CanSeedMap_InsertNow(map, s, t) ==
    IF s \in DOMAIN map THEN map ELSE (s :> t) @@ map

\* the map as can_seed leaves it
CanSeedMap(map, s, t) == OrInsert(map, s)

\* the map as reset_seed_cooldown leaves it: *last_used = chrono::Utc::now()
ResetMap(map, s, t) == [OrInsert(map, s) EXCEPT ![s] = t]

can_seed(s) ==
    /\ Len(seedLog) < MaxSeedOps
    /\ LET last_used == OrInsert(seeder_cooldown, s)[s]
           r == CanSeedResult(last_used, now)
       IN  /\ seeder_cooldown' = CanSeedMap(seeder_cooldown, s, now)
           /\ seedLog' = Append(seedLog,
                  [op |-> "can_seed", server |-> s, at |-> now,
                   ok |-> r.ok, wait |-> r.wait, trig |-> triggered[s]])
    /\ UNCHANGED <<now, triggered, ticks, handlerVars, actorVars, auxVars>>

reset_seed_cooldown(s) ==
    /\ Len(seedLog) < MaxSeedOps
    /\ seeder_cooldown' = ResetMap(seeder_cooldown, s, now)
    /\ triggered' = [triggered EXCEPT ![s] = Some(now)]
    /\ seedLog' = Append(seedLog,
           [op |-> "reset", server |-> s, at |-> now,
            ok |-> TRUE, wait |-> 0, trig |-> triggered[s]])
    /\ UNCHANGED <<now, ticks, handlerVars, actorVars, auxVars>>

\* the clock between two calls: a minute, an hour or three hours pass
SeedSteps == {MINUTE, HOUR, 3 * HOUR}

SeedTick ==
    /\ ticks < MaxTicks
    /\ \E d \in SeedSteps : now' = now + d
    /\ ticks' = ticks + 1
    /\ UNCHANGED <<seeder_cooldown, triggered, seedLog, handlerVars, actorVars, auxVars>>

SeedNext ==
    \/ \E s \in Servers : can_seed(s)
    \/ \E s \in Servers : reset_seed_cooldown(s)
    \/ SeedTick

SeedSpec == Init /\ [][SeedNext]_vars

(***************************************************************************)
(* event_handler, Event::Message branch. A handler's steps are cut at the   *)
(* suspension points of the code: get_or_init, the trial-mod send, the      *)
(* media_cooldown write lock, the delete of the message, and the send on    *)
(* the request channel.                                                     *)
(***************************************************************************)

\* the handler returns res: its event is gone
Return(h, res) ==
    /\ hpc' = [hpc EXCEPT ![h] = "idle"]
    /\ hev' = [hev EXCEPT ![h] = NoEvent]
    /\ hret' = [hret EXCEPT ![h] = res]

\* media_cooldown.try_allow_one(new_message): Ok, or Err(time_left). The
\* media_cooldown module is not among the source files; every answer its
\* contract allows is taken: allowed, or denied with allowed_at - now, the
\* remaining wait of a window that has not elapsed.
TryAllowOne(msg) ==
    {[ok |-> TRUE, time_left |-> 0]}
        \cup {[ok |-> FALSE, time_left |-> t] : t \in 1..MaxLeft}

\* an initialiser that runs on every event, whatever the cell holds
InitRuns_EveryEvent(c) == TRUE

\* OnceCell::get_or_init runs its closure only when the cell is empty: callers
\* that race on an empty cell are serialised by the cell, the first runs the
\* closure and the others get the value it stored
InitRuns(c) == c = "unset"

\* the framework calls event_handler with a Message event:
\* data.media_cooldown_thread.get_or_init(|| async { spawn_cooldown_manager(ctx) })
\* spawns the actor if the cell is empty (the closure does not suspend, and the
\* cell runs it at most once), then the match on the event runs up to its first
\* suspension point
H_Event(h) ==
    /\ hpc[h] = "idle"
    /\ cell # "dropped"
    /\ events < MaxEvents
    /\ events' = events + 1
    /\ IF InitRuns(cell)
       THEN cell' = "set" /\ apc' = "recv" /\ spawns' = spawns + 1
       ELSE UNCHANGED <<cell, apc, spawns>>
    /\ \E g \in BOOLEAN, c \in Channels, u \in Users :
          IF ~g
          THEN Return(h, "ok")
          ELSE /\ hev' = [hev EXCEPT ![h] = [guild |-> g, channel |-> c, author |-> u]]
               /\ hpc' = [hpc EXCEPT ![h] =
                      IF c = trial_mod_channel THEN "trial" ELSE "lock"]
               /\ hret' = [hret EXCEPT ![h] = "none"]
    /\ UNCHANGED <<now, seedVars, auxVars, lock, hcd,
                   chan, cur, queue, nmsg, delLog, tasks, pass, failed>>

\* trial mod channel positivity quota: with r < 0.1 the encouragement is sent,
\* and a failed send returns the error (the ? operator)
H_Trial(h) ==
    /\ hpc[h] = "trial"
    /\ \E encourage \in BOOLEAN, sent \in BOOLEAN :
          IF encourage /\ ~sent
          THEN Return(h, "err")
          ELSE /\ hpc' = [hpc EXCEPT ![h] = "lock"]
               /\ UNCHANGED <<hev, hret>>
    /\ UNCHANGED <<now, seedVars, auxVars, cell, spawns, lock, hcd, events, actorVars>>

\* data.media_cooldown.write().await, then try_allow_one: allowed returns Ok(())
\* and drops the guard; denied goes on to delete the message, holding the guard
\* (hcd[h].delete_at holds time_left until the Cooldown is built)
H_Lock(h) ==
    /\ hpc[h] = "lock"
    /\ lock = 0
    /\ \E r \in TryAllowOne(hev[h]) :
          IF r.ok
          THEN /\ Return(h, "ok")
               /\ UNCHANGED <<lock, hcd>>
          ELSE /\ hpc' = [hpc EXCEPT ![h] = "delete"]
               /\ UNCHANGED <<hev, hret>>
               /\ lock' = h
               /\ hcd' = [hcd EXCEPT ![h] =
                      [user |-> hev[h].author, channel |-> hev[h].channel,
                       delete_at |-> r.time_left]]
    /\ UNCHANGED <<now, seedVars, auxVars, cell, spawns, events, actorVars>>

\* new_message.delete(ctx).await?: a failed delete returns the error and drops
\* the guard; otherwise the Cooldown is built with delete_at = Utc::now() + time_left
H_Delete(h) ==
    /\ hpc[h] = "delete"
    /\ \E deleted \in BOOLEAN :
          IF deleted
          THEN /\ hpc' = [hpc EXCEPT ![h] = "send"]
               /\ hcd' = [hcd EXCEPT ![h].delete_at = now + hcd[h].delete_at]
               /\ UNCHANGED <<lock, hev, hret>>
          ELSE /\ Return(h, "err")
               /\ hcd' = [hcd EXCEPT ![h] = NoCooldown]
               /\ lock' = 0
    /\ UNCHANGED <<now, seedVars, auxVars, cell, spawns, events, actorVars>>

\* let _ = cooldown_handler.send(Cooldown { .. }).await: waits for room in the
\* channel; with the receiver gone the send fails at once and the error is dropped
H_Send(h) ==
    /\ hpc[h] = "send"
    /\ apc = "done" \/ Len(chan) < ChanCap
    /\ chan' = IF apc = "done" THEN chan ELSE Append(chan, hcd[h])
    /\ Return(h, "ok")
    /\ hcd' = [hcd EXCEPT ![h] = NoCooldown]
    /\ lock' = 0
    /\ UNCHANGED <<now, seedVars, auxVars, cell, spawns, events,
                   apc, cur, queue, nmsg, delLog, tasks, pass, failed>>

\* the framework shuts down and drops PoiseData, and with it the only Sender:
\* no handler is running (each borrows PoiseData) and none starts afterwards
DropSender ==
    /\ cell = "set"
    /\ \A h \in Handlers : hpc[h] = "idle"
    /\ cell' = "dropped"
    /\ UNCHANGED <<now, seedVars, auxVars, spawns, lock, hpc, hev, hcd, hret, events, actorVars>>

(***************************************************************************)
(* The cooldown actor: the task spawned by spawn_cooldown_manager. One loop *)
(* pass is A_Recv, A_SendDone when a notice is sent, and A_Sweep, which     *)
(* ends at yield_now.                                                       *)
(***************************************************************************)

\* a receiver that never yields a buffered request
TryRecv_NeverOk(c, senders) ==
    IF c = <<>> /\ senders = "dropped" THEN "Disconnected" ELSE "Empty"

\* a try_recv whose caller takes every Err for the end of the channel
TryRecv_EmptyIsDisconnected(c, senders) ==
    IF c # <<>> THEN "Ok" ELSE "Disconnected"

\* cooldown_receiver.try_recv() on tokio's mpsc channel: a buffered value if
\* there is one, Disconnected if there is none and every Sender is dropped,
\* Empty otherwise
TryRecv(c, senders) ==
    IF c # <<>> THEN "Ok"
    ELSE IF senders = "dropped" THEN "Disconnected"
    ELSE "Empty"

\* a pending check that compares the whole Cooldown, delete_at included
Pending_WholeCooldown(q, cooldown) ==
    \E i \in 1..Len(q) :
        /\ q[i].user = cooldown.user /\ q[i].channel = cooldown.channel
        /\ q[i].delete_at = cooldown.delete_at

\* a pending check that compares the user with the channel id and back
Pending_Swapped(q, cooldown) ==
    \E i \in 1..Len(q) : q[i].user = cooldown.channel /\ q[i].channel = cooldown.user

\* queue.iter().any(|(cd, _)| cd.user == user && cd.channel == channel)
Pending(q, cooldown) ==
    \E i \in 1..Len(q) : q[i].user = cooldown.user /\ q[i].channel = cooldown.channel

\* an expiry test with the subtraction the wrong way round
Expired_Reversed(t, delete_at) == delete_at - t > 0

\* let delete = Utc::now() - cooldown.delete_at > Duration::zero();
Expired(t, delete_at) == t - delete_at > 0

\* match cooldown_receiver.try_recv() { .. }: leave the loop on Disconnected, go
\* on to the sweep on Empty and on a request for a pending pair, and send the
\* notice for a request whose pair is not pending
A_Recv ==
    /\ apc = "recv"
    /\ LET r == TryRecv(chan, cell) IN
       IF r = "Disconnected"
       THEN /\ apc' = "done"
            /\ pass' = [arm |-> r, swept |-> 0]
            /\ UNCHANGED <<chan, cur>>
       ELSE IF r = "Empty"
       THEN /\ apc' = "sweep"
            /\ pass' = [arm |-> r, swept |-> 0]
            /\ UNCHANGED <<chan, cur>>
       ELSE /\ chan' = Tail(chan)
            /\ IF ~Pending(queue, Head(chan))
               THEN /\ apc' = "send"
                    /\ cur' = Head(chan)
                    /\ pass' = [arm |-> "new", swept |-> 0]
               ELSE /\ apc' = "sweep"
                    /\ pass' = [arm |-> "dup", swept |-> 0]
                    /\ UNCHANGED cur
    /\ UNCHANGED <<now, seedVars, auxVars, handlerVars, queue, nmsg, delLog, tasks, failed>>

\* a push that does not look at the result of the send
Pushed_Always(q, nag, sent) == Append(q, nag)

\* if let Ok(msg) = .. { queue.push((cooldown, msg)) }
Pushed(q, nag, sent) == IF sent THEN Append(q, nag) ELSE q

\* ctx.http.send_message(..).await returns, with the message or with an error
A_SendDone ==
    /\ apc = "send"
    /\ \E sent \in BOOLEAN :
          LET nag == [user |-> cur.user, channel |-> cur.channel,
                      delete_at |-> cur.delete_at, msg |-> nmsg + 1]
          IN  /\ queue' = Pushed(queue, nag, sent)
              /\ nmsg' = IF sent THEN nmsg + 1 ELSE nmsg
              /\ failed' = IF sent THEN failed
                           ELSE failed \cup {<<cur.user, cur.channel>>}
    /\ cur' = NoCooldown
    /\ apc' = "sweep"
    /\ UNCHANGED <<now, seedVars, auxVars, handlerVars, chan, delLog, tasks, pass>>

\* the clock readings of one retain pass: Utc::now() is read once per element
ClockReadings(n) ==
    {ts \in [1..n -> now..MaxNow] : \A i \in 1..n : \A j \in 1..n : i <= j => ts[i] <= ts[j]}

RECURSIVE Retained(_, _)
\* queue.retain(..): the elements, in order, that are not expired at their reading
Retained(q, ts) ==
    IF q = <<>> THEN <<>>
    ELSE (IF Expired(Head(ts), Head(q).delete_at) THEN <<>> ELSE <<Head(q)>>)
             \o Retained(Tail(q), Tail(ts))

RECURSIVE Spawned(_, _)
\* the delete tasks the retain pass spawns, in order: tokio::task::spawn(http.delete_message(cid, mid))
Spawned(q, ts) ==
    IF q = <<>> THEN <<>>
    ELSE (IF Expired(Head(ts), Head(q).delete_at)
          THEN <<[msg |-> Head(q).msg, delete_at |-> Head(q).delete_at,
                  at |-> Head(ts)]>>
          ELSE <<>>)
             \o Spawned(Tail(q), Tail(ts))

\* queue.retain(..) and tokio::task::yield_now().await
A_Sweep ==
    /\ apc = "sweep"
    /\ \E ts \in ClockReadings(Len(queue)) :
          /\ queue' = Retained(queue, ts)
          /\ delLog' = delLog \o Spawned(queue, ts)
          /\ tasks' = tasks \cup {Spawned(queue, ts)[i].msg : i \in 1..Len(Spawned(queue, ts))}
          /\ pass' = [pass EXCEPT !.swept = Len(Spawned(queue, ts))]
          /\ now' = IF queue = <<>> THEN now ELSE ts[Len(queue)]
    /\ apc' = "recv"
    /\ UNCHANGED <<seedVars, auxVars, handlerVars, chan, cur, nmsg, failed>>

\* a spawned http.delete_message(cid, mid) completes; nothing reads its result
DeleteDone(m) ==
    /\ m \in tasks
    /\ tasks' = tasks \ {m}
    /\ UNCHANGED <<now, seedVars, auxVars, handlerVars, apc, chan, cur, queue, nmsg, delLog, pass, failed>>

\* time passes
Tick ==
    /\ now < MaxNow
    /\ now' = now + 1
    /\ UNCHANGED <<seedVars, auxVars, handlerVars, actorVars>>

Next ==
    \/ \E h \in Handlers : H_Event(h)
    \/ \E h \in Handlers : H_Trial(h)
    \/ \E h \in Handlers : H_Lock(h)
    \/ \E h \in Handlers : H_Delete(h)
    \/ \E h \in Handlers : H_Send(h)
    \/ DropSender
    \/ A_Recv
    \/ A_SendDone
    \/ A_Sweep
    \/ \E m \in 1..MaxEvents : DeleteDone(m)
    \/ Tick

Spec == Init /\ [][Next]_vars

\* the runtime schedules every task again and again, every awaited call
\* returns, and time passes
FairSpec ==
    /\ Spec
    /\ WF_vars(A_Recv)
    /\ WF_vars(A_SendDone)
    /\ WF_vars(A_Sweep)
    /\ WF_vars(Tick)

\* FairSpec, and every suspended handler is resumed: the awaited sends and
\* deletes return, a send on the channel goes through once there is room, and
\* the write lock, which queues its waiters, is granted to each of them
HandlerFairSpec ==
    /\ FairSpec
    /\ \A h \in Handlers : WF_vars(H_Trial(h))
    /\ \A h \in Handlers : SF_vars(H_Lock(h))
    /\ \A h \in Handlers : WF_vars(H_Delete(h))
    /\ \A h \in Handlers : WF_vars(H_Send(h))

(***************************************************************************)
(* Properties of the cooldown actor and of event_handler (checked under     *)
(* Spec, the liveness ones under FairSpec).                                 *)
(***************************************************************************)

\* C1: the queue holds at most one PendingNag per (user, channel) pair.
C1_OnePerPair ==
    \A i \in 1..Len(queue) : \A j \in 1..Len(queue) :
        (queue[i].user = queue[j].user /\ queue[i].channel = queue[j].channel) => i = j

\* a second request for a pending pair went through a whole loop pass, and the
\* pair's nag is still the only one
C1_Witness ==
    /\ apc = "recv"
    /\ pass.arm = "dup"
    /\ Len(queue) = 1
    /\ events = MaxEvents

\* C2 as claimed: the delete of every notice the actor recorded is issued exactly
\* once over the whole run, and only at a time strictly after its delete_at, also
\* on runs that close the request channel while nags are pending.
C2_DeletedExactlyOnce ==
    /\ \A i \in 1..Len(delLog) : delLog[i].at > delLog[i].delete_at
    /\ \A i \in 1..Len(delLog) : \A j \in 1..Len(delLog) :
          delLog[i].msg = delLog[j].msg => i = j
    /\ apc = "done" => \A m \in 1..nmsg : \E i \in 1..Len(delLog) : delLog[i].msg = m

C8_TerminatesIffClosed ==
    /\ [](apc = "done" => (cell = "dropped" /\ chan = <<>>))
    /\ [][(apc # "done" /\ apc' = "done")
            => (apc = "recv" /\ cell = "dropped" /\ chan = <<>>)]_vars
    /\ ((cell = "dropped" /\ chan = <<>>) ~> (apc = "done"))

\* the actor sent a notice and later left the loop on Disconnected
C8_Witness ==
    /\ apc = "done"
    /\ pass.arm = "Disconnected"
    /\ cell = "dropped"
    /\ nmsg >= 1

\* C9: every loop pass that does not leave the loop sweeps, whatever try_recv
\* returned; right after a sweep no nag whose delete_at is strictly before the
\* time the sweep started is in the queue; the deletes it spawned are still
\* running when it ends; and while the actor runs every nag is eventually
\* removed, its delete spawned, once its delete_at has passed.
C9_SweepEveryPass ==
    /\ [][(apc = "sweep" /\ apc' = "recv")
            => (/\ \A i \in 1..Len(queue') : queue'[i].delete_at >= now
                /\ \A i \in 1..Len(queue) :
                      (\A j \in 1..Len(queue') : queue'[j].msg # queue[i].msg)
                          => queue[i].msg \in tasks')]_vars
    /\ [][(apc # "recv" /\ apc # "none" /\ apc' = "recv") => apc = "sweep"]_vars
    /\ ((apc \in {"recv", "send"}) ~> (apc \in {"sweep", "done"}))
    /\ \A m \in 1..MaxEvents :
          (\E i \in 1..Len(queue) : queue[i].msg = m /\ queue[i].delete_at < MaxNow)
              ~> ((\E j \in 1..Len(delLog) : delLog[j].msg = m) \/ apc = "done")

\* a pass that received nothing has swept an expired nag, and the actor is back
\* at try_recv while the spawned delete is still running
C9_Witness ==
    /\ apc = "recv"
    /\ pass.arm = "Empty"
    /\ pass.swept >= 1
    /\ tasks # {}
    /\ cell = "set"

\* C10 as claimed: a handler whose message the media cooldown denied returns only
\* after sending its Cooldown request, and returns Ok, also when the delete of
\* the message failed.
C10_DenialSendsRequest ==
    [][\A h \in Handlers :
          (hpc[h] \in {"delete", "send"} /\ hpc'[h] = "idle")
              => (/\ hret'[h] = "ok"
                  /\ hpc[h] = "send"
                  /\ chan' = Append(chan, hcd[h]))]_vars

\* C11: at most one cooldown actor is ever spawned, however many event_handler
\* invocations run concurrently; every running handler holds the Sender of that
\* one actor; and the PendingNag queue changes only in a step of the actor.
C11_OneActor ==
    /\ [](spawns <= 1)
    /\ [](\A h \in Handlers : hpc[h] # "idle" => (cell = "set" /\ spawns = 1))
    /\ [][queue' # queue => (apc \in {"send", "sweep"} /\ apc' # apc)]_vars

\* two handlers run at once, the second having found the cell set by the first,
\* and one actor was spawned
C11_Witness ==
    /\ \A h \in Handlers : hpc[h] # "idle"
    /\ events = 2
    /\ spawns = 1
    /\ apc # "none"

\* C16: a PendingNag is recorded only for a notice that was sent. Every nag in
\* the queue and every delete spawned carries the id of a sent notice; a send
\* that fails leaves the queue as it was and schedules nothing; and a request
\* whose pair has no nag, an earlier failure or not, goes on to send a notice.
C16_NagOnlyForSentNotice ==
    /\ [](\A i \in 1..Len(queue) : queue[i].msg \in 1..nmsg)
    /\ [](\A i \in 1..Len(delLog) : delLog[i].msg \in 1..nmsg)
    /\ [][(apc = "send" /\ apc' = "sweep" /\ nmsg' = nmsg)
            => (queue' = queue /\ delLog' = delLog /\ tasks' = tasks)]_vars
    /\ [][(/\ apc = "recv" /\ apc' # "recv"
           /\ chan # <<>>
           /\ \A i \in 1..Len(queue) :
                  ~(queue[i].user = Head(chan).user /\ queue[i].channel = Head(chan).channel))
            => (apc' = "send" /\ cur' = Head(chan) /\ queue' = queue)]_vars

\* the notice of a first request could not be sent, and the next request for
\* the same pair was taken as a first one: its notice, the only one sent, is
\* in the queue
C16_Witness ==
    /\ events = 2
    /\ nmsg = 1
    /\ Len(queue) = 1
    /\ <<queue[1].user, queue[1].channel>> \in failed
    /\ delLog = <<>>

\* C17 as claimed: a handler at the trial-mod encouragement always goes on to the
\* media-cooldown check, also when sending the encouragement fails.
C17_ReachesMediaCheck ==
    [][\A h \in Handlers :
          (hpc[h] = "trial" /\ hpc'[h] # "trial") => hpc'[h] = "lock"]_vars

\* C18: handlers and actor cannot deadlock and no request is lost. A handler
\* that deletes or sends holds the media-cooldown write lock, and no step of the
\* actor needs it; under fair scheduling every handler waiting to send on the
\* channel, full or not, completes its send and returns, the lock is released
\* again, every handler waiting for the lock gets it, and every request in the
\* channel is received by the actor.
C18_NoDeadlockNoLoss ==
    /\ [](\A h \in Handlers : hpc[h] \in {"delete", "send"} <=> lock = h)
    /\ [][apc' # apc => lock' = lock]_vars
    /\ \A h \in Handlers : (hpc[h] = "send") ~> (hpc[h] = "idle" /\ hret[h] = "ok")
    /\ (lock # 0) ~> (lock = 0)
    /\ \A h \in Handlers : (hpc[h] = "lock") ~> (hpc[h] # "lock")
    /\ (chan # <<>>) ~> (chan = <<>>)
    /\ []((chan # <<>> \/ \E h \in Handlers : hpc[h] = "send") => apc # "done")

\* a handler holds the write lock and waits to send on the full channel, which
\* holds the request of the other handler, while the actor is in its sweep
C18_Witness ==
    /\ \E h \in Handlers : hpc[h] = "send" /\ lock = h
    /\ Len(chan) = ChanCap
    /\ apc = "sweep"
    /\ events = 2

(***************************************************************************)
(* Properties of the seeder cooldown (checked under SeedSpec).              *)
(***************************************************************************)

\* the last-triggered timestamp a history value stands for
LastTriggered(o) == IF o = None THEN MIN_UTC ELSE o[1]

CanSeedCalls == {i \in 1..Len(seedLog) : seedLog[i].op = "can_seed"}

\* C3: a can_seed(S) evaluated at the instant t of S's last reset_seed_cooldown
\* fails with the full window as remaining wait; evaluated at t+d, 0 < d < 4h,
\* it fails with 4h - d; evaluated after the window has elapsed it succeeds.
C3_WindowAfterTrigger ==
    \A i \in CanSeedCalls :
        LET e == seedLog[i] IN
        e.trig # None =>
            LET d == e.at - e.trig[1] IN
            /\ d = 0 => (~e.ok /\ e.wait = SEED_COOLDOWN)
            /\ (0 < d /\ d < SEED_COOLDOWN) => (~e.ok /\ e.wait = SEED_COOLDOWN - d)
            /\ d > SEED_COOLDOWN => e.ok

\* reset at t, a can_seed one hour later that reports three hours, and a
\* can_seed after the window that succeeds
C3_Witness ==
    /\ \E i \in CanSeedCalls :
          /\ seedLog[i].trig # None
          /\ seedLog[i].at - seedLog[i].trig[1] = HOUR
          /\ ~seedLog[i].ok /\ seedLog[i].wait = 3 * HOUR
    /\ \E i \in CanSeedCalls :
          /\ seedLog[i].trig # None
          /\ seedLog[i].at - seedLog[i].trig[1] > SEED_COOLDOWN
          /\ seedLog[i].ok

C5_AllowedAtBoundary ==
    \A i \in CanSeedCalls :
        seedLog[i].ok <=> (seedLog[i].at >= LastTriggered(seedLog[i].trig) + SEED_COOLDOWN)

\* C6: an absent entry is equivalent to one holding MIN_UTC. The map, read with
\* absent as MIN_UTC, is at every moment the history of resets, whatever entries
\* can_seed has inserted; every can_seed answers as that history alone decides;
\* and a can_seed on a server never triggered succeeds.
C6_AbsentIsNeverTriggered ==
    /\ \A s \in Servers :
          OrInsert(seeder_cooldown, s)[s] = LastTriggered(triggered[s])
    /\ \A i \in CanSeedCalls :
          LET e == seedLog[i]
              r == CanSeedResult(LastTriggered(e.trig), e.at) IN
          /\ e.ok = r.ok /\ e.wait = r.wait
          /\ e.trig = None => e.ok

\* a second can_seed on a server never triggered, after the first one
\* inserted its entry, and a can_seed on the other server after that
C6_Witness ==
    /\ Len(seedLog) >= 3
    /\ \A i \in 1..3 : seedLog[i].op = "can_seed" /\ seedLog[i].trig = None /\ seedLog[i].ok
    /\ seedLog[2].server = seedLog[1].server
    /\ seedLog[3].server # seedLog[1].server
    /\ seedLog[3].at > seedLog[1].at
    /\ DOMAIN seeder_cooldown = Servers

(***************************************************************************)
(* The log ingestion buffer handed to log_handler::spawn_log_thread by      *)
(* start_bot: the log receiver appends every inbound line, the log thread   *)
(* drains on its five second timer and delivers the batch as one message.   *)
(* The buffer and the thread are not among the source files; they are       *)
(* modelled from their contract: append(line) is non-blocking, drain()      *)
(* returns and clears, atomically, the lines accumulated since the previous *)
(* drain.                                                                   *)
(***************************************************************************)

\* a drain that returns the lines and leaves them in the buffer
Drain_KeepsLines(buf) == [lines |-> buf, rest |-> buf]

\* drain(): the batch it returns and the buffer it leaves
Drain(buf) == [lines |-> buf, rest |-> <<>>]

\* append(line), called by the log receiver for an inbound line
LogAppend ==
    /\ appended < MaxLines
    /\ appended' = appended + 1
    /\ logBuf' = Append(logBuf, appended + 1)
    /\ UNCHANGED <<notLogVars, dpc, batch, drained>>

\* the timer fires and the log thread calls drain()
LogDrain ==
    /\ dpc = "wait"
    /\ Len(drained) < MaxDrains
    /\ batch' = Drain(logBuf).lines
    /\ logBuf' = Drain(logBuf).rest
    /\ drained' = Append(drained, [lines |-> Drain(logBuf).lines, started |-> appended])
    /\ dpc' = "deliver"
    /\ UNCHANGED <<notLogVars, appended>>

\* the log thread has formatted and delivered the batch (an empty batch
\* produces no message) and waits for the next interval
LogDeliver ==
    /\ dpc = "deliver"
    /\ batch' = <<>>
    /\ dpc' = "wait"
    /\ UNCHANGED <<notLogVars, logBuf, appended, drained>>

LogNext ==
    \/ LogAppend
    \/ LogDrain
    \/ LogDeliver

LogSpec == Init /\ [][LogNext]_vars

RECURSIVE Flatten(_)
\* the lines of a sequence of batches, in order
Flatten(bs) == IF bs = <<>> THEN <<>> ELSE Head(bs).lines \o Flatten(Tail(bs))

\* C12: under any interleaving of append and drain, no drained batch holds a
\* line appended after its drain started; the batches drained so far followed
\* by the buffer are the lines appended, each once and in arrival order; and a
\* drain with nothing appended since the previous drain returns an empty batch.
C12_DrainPartitions ==
    /\ \A i \in 1..Len(drained) :
          \A k \in 1..Len(drained[i].lines) : drained[i].lines[k] <= drained[i].started
    /\ Flatten(drained) \o logBuf = [n \in 1..appended |-> n]
    /\ \A i \in 1..Len(drained) :
          (i > 1 /\ drained[i].started = drained[i - 1].started) => drained[i].lines = <<>>
    /\ (drained # <<>> /\ drained[1].started = 0) => drained[1].lines = <<>>

\* append A, append B, a drain that returns [A, B], a second drain that returns
\* the empty batch, and a line appended while that batch was being delivered
C12_Witness ==
    /\ Len(drained) = 2
    /\ drained[1].lines = <<1, 2>>
    /\ drained[2].lines = <<>>
    /\ dpc = "deliver"
    /\ logBuf = <<3>>

(***************************************************************************)
(* Moderation commands (commands/mods.rs): tf2ban and tf2kick build the     *)
(* console command and hand it to rcon_and_reply, which runs it on the      *)
(* server's connection and replies with the output. rcon_and_reply and the  *)
(* Server type are not among the source files; the connection is modelled   *)
(* from its contract, an owned slot behind a mutual-exclusion guard per     *)
(* ServerEndpoint.                                                          *)
(***************************************************************************)

\* Option::unwrap_or
UnwrapOr(o, default) == IF o = None THEN default ELSE o[1]

\* a guard that lets every caller in
Free_Always(holder) == TRUE

\* the guard of a server's connection can be taken
Free(holder) == holder = 0

\* rcon_and_reply(ctx, server, cmd) is called and waits for the connection
RconCall(i, server, cmd) ==
    /\ rpc[i] = "idle"
    /\ ncmd < MaxCmds
    /\ ncmd' = ncmd + 1
    /\ rpc' = [rpc EXCEPT ![i] = "wait"]
    /\ rcmd' = [rcmd EXCEPT ![i] = [server |-> server, cmd |-> cmd]]
    /\ UNCHANGED <<notRconVars, controller>>

\* let reason = reason.unwrap_or("undesirable".to_owned());
\* let cmd = format!("sm_ban \"{}\" {} {}", username, minutes, reason);
\* rcon_and_reply(ctx, server, cmd).await
tf2ban(i) ==
    \E server \in Servers, username \in Users, reason \in {None} \cup {Some(r) : r \in Reasons} :
        RconCall(i, server, <<"sm_ban", username, "30", UnwrapOr(reason, "undesirable")>>)

\* let reason = reason.unwrap_or("1984".to_owned());
\* rcon_and_reply(ctx, server, format!("sm_kick \"{}\" {}", username, reason)).await
tf2kick(i) ==
    \E server \in Servers, username \in Users, reason \in {None} \cup {Some(r) : r \in Reasons} :
        RconCall(i, server, <<"sm_kick", username, UnwrapOr(reason, "1984")>>)

\* the invocation takes the guard of its server's connection and sends the command
RconExec(i) ==
    /\ rpc[i] = "wait"
    /\ Free(controller[rcmd[i].server])
    /\ controller' = [controller EXCEPT ![rcmd[i].server] = i]
    /\ rpc' = [rpc EXCEPT ![i] = "exec"]
    /\ UNCHANGED <<notRconVars, rcmd, ncmd>>

\* the round trip ends, with the output or with an error: the guard is released
\* and the invocation replies and returns
RconDone(i) ==
    /\ rpc[i] = "exec"
    /\ controller' = [controller EXCEPT ![rcmd[i].server] = 0]
    /\ rpc' = [rpc EXCEPT ![i] = "idle"]
    /\ rcmd' = [rcmd EXCEPT ![i] = NoCommand]
    /\ UNCHANGED <<notRconVars, ncmd>>

RconNext ==
    \/ \E i \in Invocations : tf2ban(i)
    \/ \E i \in Invocations : tf2kick(i)
    \/ \E i \in Invocations : RconExec(i)
    \/ \E i \in Invocations : RconDone(i)

RconSpec == Init /\ [][RconNext]_vars

\* C13: on one ServerEndpoint at most one command execution is in flight at any
\* instant, and the execution in flight is the one that holds the connection.
C13_OneInFlight ==
    /\ \A i \in Invocations : \A j \in Invocations :
          (rpc[i] = "exec" /\ rpc[j] = "exec" /\ rcmd[i].server = rcmd[j].server) => i = j
    /\ \A i \in Invocations : rpc[i] = "exec" => controller[rcmd[i].server] = i

\* a tf2ban runs on a server while a tf2kick invoked on the same server waits,
\* and a command on the other server runs at the same time
C13_Witness ==
    \E i \in Invocations, j \in Invocations, k \in Invocations :
        /\ rpc[i] = "exec" /\ rcmd[i].cmd[1] = "sm_ban"
        /\ rpc[j] = "wait" /\ rcmd[j].cmd[1] = "sm_kick"
        /\ rcmd[j].server = rcmd[i].server
        /\ rpc[k] = "exec" /\ rcmd[k].server # rcmd[i].server

(***************************************************************************)
(* Lookups of a referent that may be absent: PoiseData::server, and the     *)
(* MessageDelete branch of event_handler, which looks the deleted message   *)
(* up in the cache and its channel up over HTTP before it posts to          *)
(* deleted_message_log_channel.                                             *)
(***************************************************************************)

\* a lookup that falls back to some configured server
ServerLookup_Fallback(map, addr) ==
    IF addr \in DOMAIN map
    THEN [ok |-> TRUE, server |-> Some(map[addr])]
    ELSE [ok |-> TRUE, server |-> Some(map[CHOOSE a \in DOMAIN map : TRUE])]

\* self.servers.get(&server_addr).ok_or("Server not found".into())
ServerLookup(map, addr) ==
    IF addr \in DOMAIN map
    THEN [ok |-> TRUE, server |-> Some(map[addr])]
    ELSE [ok |-> FALSE, server |-> None]

\* PoiseData::server(&self, server_addr), called by a command
server(addr) ==
    /\ lookup' = [addr |-> addr, ok |-> ServerLookup(servers, addr).ok,
                  server |-> ServerLookup(servers, addr).server]
    /\ UNCHANGED <<notLookupVars, cache, mpc, mmsg, mret, dlast, devents, logSent>>

\* the library caches a message it received
CacheInsert(m) ==
    /\ m \notin cache
    /\ cache' = cache \cup {m}
    /\ UNCHANGED <<notLookupVars, lookup, mpc, mmsg, mret, dlast, devents, logSent>>

\* the library drops a message from the cache (it keeps at most 500)
CacheEvict(m) ==
    /\ m \in cache
    /\ cache' = cache \ {m}
    /\ UNCHANGED <<notLookupVars, lookup, mpc, mmsg, mret, dlast, devents, logSent>>

\* ctx.cache.message(channel_id, deleted_message_id)
CacheMessage(c, m) == IF m \in c THEN Some(m) ELSE None

\* the delete handler returns res
M_Return(h, res) ==
    /\ mpc' = [mpc EXCEPT ![h] = "idle"]
    /\ mmsg' = [mmsg EXCEPT ![h] = 0]
    /\ mret' = [mret EXCEPT ![h] = res]

\* the framework calls event_handler with a MessageDelete event: get_or_init,
\* then the cache lookup; a message that is not cached returns
\* Err("Message not found in cache")
M_Event(h, m) ==
    /\ mpc[h] = "idle"
    /\ cell # "dropped"
    /\ devents < MaxDeletes
    /\ devents' = devents + 1
    /\ dlast' = [h |-> h, msg |-> m]
    /\ IF InitRuns(cell)
       THEN cell' = "set" /\ apc' = "recv" /\ spawns' = spawns + 1
       ELSE UNCHANGED <<cell, apc, spawns>>
    /\ IF CacheMessage(cache, m) = None
       THEN M_Return(h, "err")
       ELSE /\ mpc' = [mpc EXCEPT ![h] = "channel"]
            /\ mmsg' = [mmsg EXCEPT ![h] = CacheMessage(cache, m)[1]]
            /\ mret' = [mret EXCEPT ![h] = "none"]
    /\ UNCHANGED <<now, seedVars, lock, hpc, hev, hcd, hret, events,
                   chan, cur, queue, nmsg, delLog, tasks, pass,
                   logVars, rconVars, callerVars, lookup, cache, logSent, failed>>

\* channel_id.to_channel(ctx).await?.guild(): a failed request returns its
\* error, a channel that is not a guild channel returns Err("Channel not found.")
M_Channel(h) ==
    /\ mpc[h] = "channel"
    /\ \E fetched \in BOOLEAN, guild \in BOOLEAN :
          IF fetched /\ guild
          THEN /\ mpc' = [mpc EXCEPT ![h] = "send"]
               /\ UNCHANGED <<mmsg, mret>>
          ELSE M_Return(h, "err")
    /\ UNCHANGED <<notLookupVars, lookup, cache, dlast, devents, logSent>>

\* let _ = data.deleted_message_log_channel.send_message(..).await; Ok(())
M_Send(h) ==
    /\ mpc[h] = "send"
    /\ \E sent \in BOOLEAN :
          logSent' = IF sent THEN Append(logSent, mmsg[h]) ELSE logSent
    /\ M_Return(h, "ok")
    /\ UNCHANGED <<notLookupVars, lookup, cache, dlast, devents>>

LookupNext ==
    \/ \E a \in Addrs : server(a)
    \/ \E m \in MsgIds : CacheInsert(m)
    \/ \E m \in MsgIds : CacheEvict(m)
    \/ \E h \in Handlers, m \in MsgIds : M_Event(h, m)
    \/ \E h \in Handlers : M_Channel(h)
    \/ \E h \in Handlers : M_Send(h)

LookupSpec == Init /\ [][LookupNext]_vars

\* C14: PoiseData::server(addr) returns Ok, with that server, exactly when addr
\* is configured, and changes nothing; a MessageDelete event whose message is
\* not in the cache makes event_handler return an error in that same step,
\* with nothing posted to the deleted-message log channel and nothing left to
\* run for that event; and only a handler that found its message posts there.
C14_AbsentLookupFails ==
    /\ [](lookup # NoLookup =>
            /\ lookup.ok <=> lookup.addr \in Servers
            /\ lookup.ok => lookup.server = Some([addr |-> lookup.addr])
            /\ ~lookup.ok => lookup.server = None)
    /\ [][lookup' # lookup => UNCHANGED <<cache, mpc, mmsg, mret, devents, logSent>>]_vars
    /\ [][(devents' = devents + 1 /\ dlast'.msg \notin cache)
            => (/\ mret'[dlast'.h] = "err"
                /\ mpc'[dlast'.h] = "idle"
                /\ logSent' = logSent)]_vars
    /\ [][logSent' # logSent
            => \E h \in Handlers : mpc[h] = "send" /\ logSent' = Append(logSent, mmsg[h])]_vars

\* a lookup of an address that is not configured failed, and a MessageDelete
\* event for a message that is not cached has just returned an error, after an
\* earlier deleted message was logged
C14_Witness ==
    /\ lookup.addr = "s3" /\ ~lookup.ok
    /\ devents = 2
    /\ dlast.msg \notin cache
    /\ mret[dlast.h] = "err" /\ mpc[dlast.h] = "idle"
    /\ Len(logSent) = 1

(***************************************************************************)
(* Concurrent callers of the seeder cooldown. A caller asks can_seed(S)     *)
(* and, only when that returned Ok, calls reset_seed_cooldown(S). Each of   *)
(* the two functions takes the write lock of seeder_cooldown for its own    *)
(* body and releases it on return, so the steps of different callers        *)
(* interleave between the two calls.                                        *)
(***************************************************************************)

\* a caller's can_seed(s).await returns
Caller_can_seed(c, s) ==
    /\ cpc[c] = "idle"
    /\ Len(seedLog) < MaxSeedOps
    /\ LET last_used == OrInsert(seeder_cooldown, s)[s]
           r == CanSeedResult(last_used, now)
       IN  /\ seeder_cooldown' = CanSeedMap(seeder_cooldown, s, now)
           /\ seedLog' = Append(seedLog,
                  [op |-> "can_seed", server |-> s, at |-> now,
                   ok |-> r.ok, wait |-> r.wait, trig |-> triggered[s]])
           /\ cpc' = [cpc EXCEPT ![c] = IF r.ok THEN s ELSE "idle"]
    /\ UNCHANGED <<now, triggered, ticks, handlerVars, actorVars,
                   logVars, rconVars, lookupVars>>

\* the caller that was allowed calls reset_seed_cooldown(s).await
Caller_reset_seed_cooldown(c) ==
    /\ cpc[c] \in Servers
    /\ seeder_cooldown' = ResetMap(seeder_cooldown, cpc[c], now)
    /\ triggered' = [triggered EXCEPT ![cpc[c]] = Some(now)]
    /\ seedLog' = Append(seedLog,
           [op |-> "reset", server |-> cpc[c], at |-> now,
            ok |-> TRUE, wait |-> 0, trig |-> triggered[cpc[c]]])
    /\ cpc' = [cpc EXCEPT ![c] = "idle"]
    /\ UNCHANGED <<now, ticks, handlerVars, actorVars,
                   logVars, rconVars, lookupVars>>

CallerNext ==
    \/ \E c \in Callers, s \in Servers : Caller_can_seed(c, s)
    \/ \E c \in Callers : Caller_reset_seed_cooldown(c)
    \/ SeedTick

CallerSpec == Init /\ [][CallerNext]_vars

\* C15 as claimed: with callers that call can_seed(S) and, only on success,
\* reset_seed_cooldown(S), any two successful can_seed(S) are at least the
\* cooldown window apart, under every interleaving of the callers.
C15_OneTriggerPerWindow ==
    \A i \in CanSeedCalls : \A j \in CanSeedCalls :
        (/\ i < j
         /\ seedLog[i].ok /\ seedLog[j].ok
         /\ seedLog[i].server = seedLog[j].server)
        => seedLog[j].at - seedLog[i].at >= SEED_COOLDOWN

====
